---- MODULE Spec2Model ----
(***************************************************************************)
(* CallbackQuery.Event of telethon/events/callbackquery.py as a state      *)
(* machine.  One event instance is shared by a bounded number of asyncio   *)
(* tasks.  A task is either a call made by the handler (answer, respond,   *)
(* reply, edit, delete, get_message, _refetch_sender) or the detached      *)
(* task that respond/reply/edit/delete create around answer().             *)
(*                                                                         *)
(* Scheduling is cooperative: `running` names the task that holds the      *)
(* event loop (0: the loop is idle).  A task keeps the loop from one       *)
(* suspension point to the next; every transport call, lookup and fetch    *)
(* is a suspension point, resolved later by the environment with one of    *)
(* the outcomes the collaborator's contract allows.                        *)
(***************************************************************************)
EXTENDS Integers, Sequences, FiniteSets, TLC

\* Number of tasks (handler calls plus detached acknowledgment tasks).
MaxTasks == 3

Tasks == 1..MaxTasks

\* Python's None and a present value, as sequences of length 0 and 1.
None == <<>>
Some(x) == <<x>>

VARIABLES
    query,         \* self.query: the UpdateBotCallbackQuery
    entities,      \* self._entities: the dispatcher's entity snapshot
    chat,          \* self._chat: the resolved chat context
    input_chat,    \* self._input_chat: cache of get_input_chat()
    sender,        \* self._sender
    input_sender,  \* self._input_sender
    message,       \* self._message
    answered,      \* self._answered
    ntasks,        \* tasks created so far
    op,            \* op[t]: the coroutine task t runs
    args,          \* args[t]: the arguments of that call
    parent,        \* parent[t]: the task whose create_task made t (0: the handler)
    pc,            \* pc[t]: where task t stands
    got,           \* got[t]: outcome of the future task t awaited last
    result,        \* result[t]: what the coroutine returned or raised
    running,       \* the task holding the event loop, 0 when idle
    calls          \* every call made on a collaborator: [by, call]

vars == <<query, entities, chat, input_chat, sender, input_sender, message,
          answered, ntasks, op, args, parent, pc, got, result, running, calls>>

(***************************************************************************)
(* Values                                                                  *)
(***************************************************************************)

\* The updates the dispatcher may build an event from: a private chat, a
\* basic group and a channel.
Updates ==
    { [query_id |-> 42, msg_id |-> 7, data |-> "buy", user_id |-> 55,
       peer |-> [type |-> "PeerChat", id |-> 100]],
      [query_id |-> 43, msg_id |-> 8, data |-> "", user_id |-> 55,
       peer |-> [type |-> "PeerUser", id |-> 55]],
      [query_id |-> 44, msg_id |-> 9, data |-> "buy", user_id |-> 55,
       peer |-> [type |-> "PeerChannel", id |-> 200]] }

User(id, hash) == [type |-> "User", id |-> id, access_hash |-> hash]
SelfUser(id) == [type |-> "User", id |-> id, is_self |-> TRUE]
Chat(id) == [type |-> "Chat", id |-> id]
Channel(id, hash) == [type |-> "Channel", id |-> id, access_hash |-> hash]

\* A valid access hash, the hash of a min entity, the hash the session holds
\* and the hash a fetched message's sender carries.
Hash == [valid |-> 1001, min |-> 0, session |-> 2002, message |-> 3003]

\* The entities a chat peer may resolve to.
ChatEntities(peer) ==
    CASE peer.type = "PeerChat" -> {Chat(peer.id)}
      [] peer.type = "PeerUser" ->
            {User(peer.id, Hash.valid), User(peer.id, Hash.min), SelfUser(peer.id)}
      [] peer.type = "PeerChannel" ->
            {Channel(peer.id, Hash.valid), Channel(peer.id, Hash.min)}

\* utils.get_input_peer(entity)
get_input_peer(entity) ==
    CASE entity.type = "Chat" -> [type |-> "InputPeerChat", chat_id |-> entity.id]
      [] entity.type = "Channel" ->
            [type |-> "InputPeerChannel", channel_id |-> entity.id,
             access_hash |-> entity.access_hash]
      [] entity.type = "User" /\ "is_self" \in DOMAIN entity ->
            [type |-> "InputPeerSelf"]
      [] OTHER ->
            [type |-> "InputPeerUser", user_id |-> entity.id,
             access_hash |-> entity.access_hash]

\* EventCommon.is_channel
is_channel == query.peer.type = "PeerChannel"

\* Event.sender_id
sender_id == query.user_id

\* self._entities.get(key)
DictGet(d, key) == IF key \in DOMAIN d THEN Some(d[key]) ELSE None

\* getattr(ref, 'access_hash', True), as the truth value line 82 negates
AccessHashTruthy(ref) ==
    IF "access_hash" \in DOMAIN ref THEN ref.access_hash # 0 ELSE TRUE

\* What a coroutine hands to whoever awaits it.
Pending == [kind |-> "pending", val |-> None]
Return(v) == [kind |-> "return", val |-> v]
Raise(e, from) == [kind |-> "raise", val |-> Some([error |-> e, from |-> from])]

(***************************************************************************)
(* Construction                                                            *)
(***************************************************************************)

\* What answer() is called with: the defaults of its signature, or explicit
\* values for every parameter.
DefaultAnswer == [message |-> None, cache_time |-> 0, url |-> None, alert |-> FALSE]
AnswerArgs ==
    { DefaultAnswer,
      [message |-> Some("oops"), cache_time |-> 5,
       url |-> Some("t.me/bot?start=x"), alert |-> TRUE] }

\* The keyword arguments respond() and reply() are called with.
SendKwargs == { [text |-> "ok"], [text |-> "ok", reply_to |-> 99] }
NoKwargs == [text |-> ""]

ResponseOps == {"respond", "reply", "edit", "delete"}
Ops == ResponseOps \cup {"answer", "get_message", "_refetch_sender"}

ArgsOf(o) ==
    CASE o = "answer" -> AnswerArgs
      [] o \in {"respond", "reply"} -> SendKwargs
      [] OTHER -> {NoKwargs}

\* CallbackQuery.build and Event.__init__: the event as the dispatcher
\* hands it to the handler.
Init ==
    /\ query \in Updates
    /\ entities \in { [i \in {} |-> User(i, Hash.valid)],
                      [i \in {query.user_id} |-> User(i, Hash.min)] }
    /\ chat \in { Some(e) : e \in ChatEntities(query.peer) }
    /\ input_chat \in { None, Some(get_input_peer(chat[1])) }
    /\ sender = None
    /\ input_sender = None
    /\ message = None
    /\ answered = FALSE
    /\ ntasks = 0
    /\ op = [t \in Tasks |-> "none"]
    /\ args = [t \in Tasks |-> NoKwargs]
    /\ parent = [t \in Tasks |-> 0]
    /\ pc = [t \in Tasks |-> "idle"]
    /\ got = [t \in Tasks |-> "none"]
    /\ result = [t \in Tasks |-> Pending]
    /\ running = 0
    /\ calls = {}

(***************************************************************************)
(* Task plumbing                                                           *)
(***************************************************************************)

\* Task t ends its coroutine with r and gives the loop back.
Finish(t, r) ==
    /\ pc' = [pc EXCEPT ![t] = "done"]
    /\ result' = [result EXCEPT ![t] = r]
    /\ running' = 0

\* Task t awaits a collaborator call c: the call is issued and t suspends.
Await(t, c, at) ==
    /\ calls' = calls \cup {[by |-> t, call |-> c]}
    /\ pc' = [pc EXCEPT ![t] = at]
    /\ running' = 0

\* The handler calls o(a) on the event: the coroutine starts running at once.
Invoke(o, a) ==
    /\ running = 0
    /\ ntasks + (IF o \in ResponseOps THEN 2 ELSE 1) <= MaxTasks
    /\ ntasks' = ntasks + 1
    /\ op' = [op EXCEPT ![ntasks + 1] = o]
    /\ args' = [args EXCEPT ![ntasks + 1] = a]
    /\ pc' = [pc EXCEPT ![ntasks + 1] = "start"]
    /\ running' = ntasks + 1
    /\ UNCHANGED <<query, entities, chat, input_chat, sender, input_sender,
                   message, answered, parent, got, result, calls>>

(***************************************************************************)
(* answer                                                                  *)
(***************************************************************************)

\* The request built with the message's id in place of the query's.
SetBotCallbackAnswerRequestMsgId(q, a) ==
    [request |-> "SetBotCallbackAnswerRequest", query_id |-> q.msg_id,
     cache_time |-> a.cache_time, alert |-> a.alert, message |-> a.message,
     url |-> a.url]

SetBotCallbackAnswerRequest(q, a) ==
    [request |-> "SetBotCallbackAnswerRequest", query_id |-> q.query_id,
     cache_time |-> a.cache_time, alert |-> a.alert, message |-> a.message,
     url |-> a.url]

\* Task t may run the first statement of answer(): the handler's call has
\* just been made, or the loop picks the detached task up.
AnswerEnabled(t) ==
    /\ op[t] = "answer"
    /\ \/ pc[t] = "start" /\ running = t
       \/ pc[t] = "scheduled" /\ running = 0


\* answer() without the test of line 116: every call sends.
AnswerRunNoTest(t) ==
    /\ AnswerEnabled(t)
    /\ answered' = TRUE
    /\ Await(t, SetBotCallbackAnswerRequest(query, args[t]), "answer_wait")
    /\ UNCHANGED <<query, entities, chat, input_chat, sender, input_sender,
                   message, ntasks, op, args, parent, got, result>>

\* answer() without the assignment of line 119: the request goes out and
\* the latch stays open.
AnswerRunNoSet(t) ==
    /\ AnswerEnabled(t)
    /\ IF answered
       THEN /\ Finish(t, Return(None))
            /\ UNCHANGED calls
       ELSE /\ Await(t, SetBotCallbackAnswerRequest(query, args[t]), "answer_wait")
            /\ UNCHANGED result
    /\ UNCHANGED <<query, entities, chat, input_chat, sender, input_sender,
                   message, answered, ntasks, op, args, parent, got>>

\* answer() handing a transport result to a caller that found the latch set.
AnswerRunLoserResult(t) ==
    /\ AnswerEnabled(t)
    /\ IF answered
       THEN /\ Finish(t, Return(Some([type |-> "bool",
                                      from |-> "SetBotCallbackAnswerRequest"])))
            /\ UNCHANGED <<answered, calls>>
       ELSE /\ answered' = TRUE
            /\ Await(t, SetBotCallbackAnswerRequest(query, args[t]), "answer_wait")
            /\ UNCHANGED result
    /\ UNCHANGED <<query, entities, chat, input_chat, sender, input_sender,
                   message, ntasks, op, args, parent, got>>

\* answer() letting explicit parameters through a set latch: only a call
\* with the defaults is dropped.
AnswerRunExplicitResends(t) ==
    /\ AnswerEnabled(t)
    /\ IF answered /\ args[t] = DefaultAnswer
       THEN /\ Finish(t, Return(None))
            /\ UNCHANGED <<answered, calls>>
       ELSE /\ answered' = TRUE
            /\ Await(t, SetBotCallbackAnswerRequest(query, args[t]), "answer_wait")
            /\ UNCHANGED result
    /\ UNCHANGED <<query, entities, chat, input_chat, sender, input_sender,
                   message, ntasks, op, args, parent, got>>

\* Lines 116-128 up to the await: the latch is tested and set, and the
\* request issued, without a suspension point in between.
AnswerRun(t) ==
    /\ AnswerEnabled(t)
    /\ IF answered
       THEN /\ Finish(t, Return(None))
            /\ UNCHANGED <<answered, calls>>
       ELSE /\ answered' = TRUE
            /\ Await(t, SetBotCallbackAnswerRequest(query, args[t]), "answer_wait")
            /\ UNCHANGED result
    /\ UNCHANGED <<query, entities, chat, input_chat, sender, input_sender,
                   message, ntasks, op, args, parent, got>>


\* answer() reopening the latch when the request fails.
AnswerResumeReopen(t, outcome) ==
    /\ running = 0
    /\ pc[t] = "answer_wait"
    /\ got' = [got EXCEPT ![t] = outcome]
    /\ answered' = (outcome = "ok")
    /\ Finish(t, IF outcome = "ok"
                 THEN Return(Some([type |-> "bool", from |-> "SetBotCallbackAnswerRequest"]))
                 ELSE Raise("RPCError", "SetBotCallbackAnswerRequest"))
    /\ UNCHANGED <<query, entities, chat, input_chat, sender, input_sender,
                   message, ntasks, op, args, parent, calls>>

\* Line 120: the request resolves and answer() returns its result, or the
\* transport's failure propagates out of it.
AnswerResume(t, outcome) ==
    /\ running = 0
    /\ pc[t] = "answer_wait"
    /\ got' = [got EXCEPT ![t] = outcome]
    /\ Finish(t, IF outcome = "ok"
                 THEN Return(Some([type |-> "bool", from |-> "SetBotCallbackAnswerRequest"]))
                 ELSE Raise("RPCError", "SetBotCallbackAnswerRequest"))
    /\ UNCHANGED <<query, entities, chat, input_chat, sender, input_sender,
                   message, answered, ntasks, op, args, parent, calls>>

(***************************************************************************)
(* get_input_chat (ChatGetter): the chat-context resolver                  *)
(***************************************************************************)

GetInputChatRequest(q) == [request |-> "get_input_chat", peer |-> q.peer]

\* A lookup that finds the chat yields its input reference.
ResolvedInputChat == Some(get_input_peer(chat[1]))

(***************************************************************************)
(* respond, reply, edit, delete                                            *)
(***************************************************************************)

\* Line 151: kwargs['reply_to'] = self.query.msg_id
SetItem(d, key, value) ==
    [k \in DOMAIN d \cup {key} |-> IF k = key THEN value ELSE d[k]]

\* Lines 139-140: send_message(input_chat, *args, **kwargs)
RespondRequest(q, entity, kwargs) ==
    [request |-> "send_message", entity |-> entity, kwargs |-> kwargs]

\* reply() with kwargs.setdefault('reply_to', ...): the caller's reply-to wins.
ReplyRequestSetDefault(q, entity, kwargs) ==
    [request |-> "send_message", entity |-> entity,
     kwargs |-> IF "reply_to" \in DOMAIN kwargs
                THEN kwargs
                ELSE SetItem(kwargs, "reply_to", q.msg_id)]

\* Lines 151-153
ReplyRequest(q, entity, kwargs) ==
    [request |-> "send_message", entity |-> entity,
     kwargs |-> SetItem(kwargs, "reply_to", q.msg_id)]

\* Lines 166-169
EditRequest(q, entity, kwargs) ==
    [request |-> "edit_message", entity |-> entity, message |-> q.msg_id,
     kwargs |-> kwargs]

\* Lines 184-187
DeleteRequest(q, entity, kwargs) ==
    [request |-> "delete_messages", entity |-> entity,
     message_ids |-> <<q.msg_id>>, kwargs |-> kwargs]

ResponseRequest(o, q, entity, kwargs) ==
    CASE o = "respond" -> RespondRequest(q, entity, kwargs)
      [] o = "reply" -> ReplyRequest(q, entity, kwargs)
      [] o = "edit" -> EditRequest(q, entity, kwargs)
      [] o = "delete" -> DeleteRequest(q, entity, kwargs)


\* An action that goes on to its own work without creating the task.
ResponseScheduleSkipped(t) ==
    /\ running = t
    /\ op[t] \in ResponseOps
    /\ pc[t] = "start"
    /\ pc' = [pc EXCEPT ![t] = "chat"]
    /\ UNCHANGED <<query, entities, chat, input_chat, sender, input_sender,
                   message, answered, ntasks, op, args, parent, got, result,
                   running, calls>>

\* Lines 138, 150, 165, 183: self._client.loop.create_task(self.answer()).
\* The new task is queued; nothing of answer() has run yet.
ResponseSchedule(t) ==
    /\ running = t
    /\ op[t] \in ResponseOps
    /\ pc[t] = "start"
    /\ ntasks' = ntasks + 1
    /\ op' = [op EXCEPT ![ntasks + 1] = "answer"]
    /\ args' = [args EXCEPT ![ntasks + 1] = DefaultAnswer]
    /\ parent' = [parent EXCEPT ![ntasks + 1] = t]
    /\ pc' = [pc EXCEPT ![ntasks + 1] = "scheduled", ![t] = "chat"]
    /\ UNCHANGED <<query, entities, chat, input_chat, sender, input_sender,
                   message, answered, got, result, running, calls>>

\* await self.get_input_chat(): the cached reference is returned without
\* suspending, otherwise the chat is looked up.
ResponseChat(t) ==
    /\ running = t
    /\ op[t] \in ResponseOps
    /\ pc[t] = "chat"
    /\ IF input_chat # None
       THEN /\ pc' = [pc EXCEPT ![t] = "send"]
            /\ UNCHANGED <<running, calls>>
       ELSE Await(t, GetInputChatRequest(query), "chat_wait")
    /\ UNCHANGED <<query, entities, chat, input_chat, sender, input_sender,
                   message, answered, ntasks, op, args, parent, got, result>>

\* The chat lookup resolves: the action goes on with the reference, or the
\* lookup's failure ends it.
ResponseChatResume(t, outcome) ==
    /\ running = 0
    /\ op[t] \in ResponseOps
    /\ pc[t] = "chat_wait"
    /\ got' = [got EXCEPT ![t] = outcome]
    /\ IF outcome = "ok"
       THEN /\ input_chat' = ResolvedInputChat
            /\ pc' = [pc EXCEPT ![t] = "send"]
            /\ running' = t
            /\ UNCHANGED result
       ELSE /\ Finish(t, Raise("ValueError", "get_input_chat"))
            /\ UNCHANGED input_chat
    /\ UNCHANGED <<query, entities, chat, sender, input_sender, message,
                   answered, ntasks, op, args, parent, calls>>

\* reply() with line 151 written the wrong way round: the caller's reply_to
\* is stored into the query.
ResponseSendAssignsMsgId(t) ==
    /\ running = t
    /\ op[t] \in ResponseOps
    /\ pc[t] = "send"
    /\ query' = IF op[t] = "reply" /\ "reply_to" \in DOMAIN args[t]
                THEN [query EXCEPT !.msg_id = args[t].reply_to]
                ELSE query
    /\ Await(t, ResponseRequest(op[t], query', input_chat[1], args[t]), "send_wait")
    /\ UNCHANGED <<entities, chat, input_chat, sender, input_sender,
                   message, answered, ntasks, op, args, parent, got, result>>

\* An action written with "await self.answer()": its own call is issued only
\* once the acknowledgment task it created has finished.
ResponseSendAwaitsAnswer(t) ==
    /\ running = t
    /\ op[t] \in ResponseOps
    /\ pc[t] = "send"
    /\ \A u \in Tasks : parent[u] = t => pc[u] = "done"
    /\ Await(t, ResponseRequest(op[t], query, input_chat[1], args[t]), "send_wait")
    /\ UNCHANGED <<query, entities, chat, input_chat, sender, input_sender,
                   message, answered, ntasks, op, args, parent, got, result>>

\* The action's own transport call is issued.
ResponseSend(t) ==
    /\ running = t
    /\ op[t] \in ResponseOps
    /\ pc[t] = "send"
    /\ Await(t, ResponseRequest(op[t], query, input_chat[1], args[t]), "send_wait")
    /\ UNCHANGED <<query, entities, chat, input_chat, sender, input_sender,
                   message, answered, ntasks, op, args, parent, got, result>>


\* An action that joins the acknowledgment: a failure of the task it
\* created comes out of the action.
ResponseSendResumeJoined(t, outcome) ==
    /\ running = 0
    /\ op[t] \in ResponseOps
    /\ pc[t] = "send_wait"
    /\ got' = [got EXCEPT ![t] = outcome]
    /\ Finish(t, IF \E u \in Tasks : parent[u] = t /\ result[u].kind = "raise"
                 THEN Raise("RPCError", "SetBotCallbackAnswerRequest")
                 ELSE IF outcome = "ok"
                 THEN Return(Some([type |-> "result", from |-> op[t]]))
                 ELSE Raise("RPCError", op[t]))
    /\ UNCHANGED <<query, entities, chat, input_chat, sender, input_sender,
                   message, answered, ntasks, op, args, parent, calls>>

\* An action that cancels the task it created when its own call fails: a
\* task still queued is dropped without having run.
ResponseSendResumeCancels(t, outcome) ==
    /\ running = 0
    /\ op[t] \in ResponseOps
    /\ pc[t] = "send_wait"
    /\ got' = [got EXCEPT ![t] = outcome]
    /\ running' = 0
    /\ pc' = [u \in Tasks |->
                IF u = t THEN "done"
                ELSE IF outcome = "error" /\ parent[u] = t /\ pc[u] = "scheduled"
                THEN "done"
                ELSE pc[u]]
    /\ result' = [u \in Tasks |->
                IF u = t
                THEN IF outcome = "ok"
                     THEN Return(Some([type |-> "result", from |-> op[t]]))
                     ELSE Raise("RPCError", op[t])
                ELSE IF outcome = "error" /\ parent[u] = t /\ pc[u] = "scheduled"
                THEN Raise("CancelledError", "answer")
                ELSE result[u]]
    /\ UNCHANGED <<query, entities, chat, input_chat, sender, input_sender,
                   message, answered, ntasks, op, args, parent, calls>>

\* return await ...: the action returns its own call's result or raises its
\* own call's failure.
ResponseSendResume(t, outcome) ==
    /\ running = 0
    /\ op[t] \in ResponseOps
    /\ pc[t] = "send_wait"
    /\ got' = [got EXCEPT ![t] = outcome]
    /\ Finish(t, IF outcome = "ok"
                 THEN Return(Some([type |-> "result", from |-> op[t]]))
                 ELSE Raise("RPCError", op[t]))
    /\ UNCHANGED <<query, entities, chat, input_chat, sender, input_sender,
                   message, answered, ntasks, op, args, parent, calls>>

(***************************************************************************)
(* get_message                                                             *)
(***************************************************************************)

\* Lines 69-70: self._client.get_messages(chat, ids=self.query.msg_id)
GetMessagesRequest(q, entity) ==
    [request |-> "get_messages", entity |-> entity, ids |-> q.msg_id]

\* The message a fetch by task t yields.  Every fetch builds a new object,
\* which carries the sender the server sent along with it.
FetchedMessage(q, t) ==
    [type |-> "Message", id |-> q.msg_id, obj |-> t,
     sender |-> Some(User(q.user_id, Hash.message)),
     input_sender |-> Some([type |-> "InputPeerUser", user_id |-> q.user_id,
                            access_hash |-> Hash.message])]

\* Task t stands in get_message(): called by the handler, or by
\* _refetch_sender at line 89.
InGetMessage(t, at) ==
    IF at = "start"
    THEN \/ op[t] = "get_message" /\ pc[t] = "start"
         \/ op[t] = "_refetch_sender" /\ pc[t] = "gm_call"
    ELSE op[t] \in {"get_message", "_refetch_sender"} /\ pc[t] = at


\* _refetch_sender clearing the sender when get_message() has no message.
GetMessageReturnClears(t, m) ==
    IF op[t] = "get_message"
    THEN /\ Finish(t, Return(m))
         /\ UNCHANGED <<sender, input_sender>>
    ELSE /\ IF m # None
            THEN /\ sender' = m[1].sender
                 /\ input_sender' = m[1].input_sender
            ELSE /\ sender' = None
                 /\ input_sender' = None
         /\ Finish(t, Return(None))

\* get_message() adopting the message's sender for every caller, not only
\* for _refetch_sender.
GetMessageReturnAdopts(t, m) ==
    /\ IF m # None
       THEN /\ sender' = m[1].sender
            /\ input_sender' = m[1].input_sender
       ELSE UNCHANGED <<sender, input_sender>>
    /\ Finish(t, IF op[t] = "get_message" THEN Return(m) ELSE Return(None))

\* get_message() returns m to its caller.  The handler's call ends with m;
\* _refetch_sender goes on with lines 90-92 and returns.
GetMessageReturn(t, m) ==
    IF op[t] = "get_message"
    THEN /\ Finish(t, Return(m))
         /\ UNCHANGED <<sender, input_sender>>
    ELSE /\ IF m # None
            THEN /\ sender' = m[1].sender
                 /\ input_sender' = m[1].input_sender
            ELSE UNCHANGED <<sender, input_sender>>
         /\ Finish(t, Return(None))

\* get_message() raises e to its caller; _refetch_sender has no handler for
\* it either.
GetMessageRaise(t, e, from) ==
    /\ Finish(t, Raise(e, from))
    /\ UNCHANGED <<sender, input_sender>>

\* Lines 64-70 up to the first await.
GetMessageStart(t) ==
    /\ running = t
    /\ InGetMessage(t, "start")
    /\ IF message # None
       THEN /\ GetMessageReturn(t, message)
            /\ UNCHANGED calls
       ELSE /\ IF is_channel /\ input_chat = None
               THEN Await(t, GetInputChatRequest(query), "gm_chat_wait")
               ELSE /\ pc' = [pc EXCEPT ![t] = "gm_fetch"]
                    /\ UNCHANGED <<running, calls>>
            /\ UNCHANGED <<sender, input_sender, result>>
    /\ UNCHANGED <<query, entities, chat, input_chat, message, answered,
                   ntasks, op, args, parent, got>>

\* Line 68: the chat lookup of a channel event resolves; not-found is the
\* ValueError line 71 catches.
GetMessageChatResume(t, outcome) ==
    /\ running = 0
    /\ InGetMessage(t, "gm_chat_wait")
    /\ got' = [got EXCEPT ![t] = outcome]
    /\ IF outcome = "ok"
       THEN /\ input_chat' = ResolvedInputChat
            /\ pc' = [pc EXCEPT ![t] = "gm_fetch"]
            /\ running' = t
            /\ UNCHANGED <<sender, input_sender, result>>
       ELSE /\ GetMessageReturn(t, None)
            /\ UNCHANGED input_chat
    /\ UNCHANGED <<query, entities, chat, message, answered, ntasks, op, args,
                   parent, calls>>

\* Lines 69-70: the fetch is issued, with the chat of a channel event and
\* with None otherwise.
GetMessageFetch(t) ==
    /\ running = t
    /\ InGetMessage(t, "gm_fetch")
    /\ Await(t, GetMessagesRequest(query, IF is_channel THEN input_chat ELSE None),
             "gm_fetch_wait")
    /\ UNCHANGED <<query, entities, chat, input_chat, sender, input_sender,
                   message, answered, ntasks, op, args, parent, got, result>>

FetchOutcomes == {"ok", "notfound", "error"}


\* get_message() without the handler of line 71: not-found propagates.
GetMessageFetchResumeUncaught(t, outcome) ==
    /\ running = 0
    /\ InGetMessage(t, "gm_fetch_wait")
    /\ got' = [got EXCEPT ![t] = outcome]
    /\ CASE outcome = "ok" ->
              /\ message' = Some(FetchedMessage(query, t))
              /\ GetMessageReturn(t, message')
         [] outcome = "notfound" ->
              /\ GetMessageRaise(t, "ValueError", "get_messages")
              /\ UNCHANGED message
         [] OTHER ->
              /\ GetMessageRaise(t, "RPCError", "get_messages")
              /\ UNCHANGED message
    /\ UNCHANGED <<query, entities, chat, input_chat, answered, ntasks, op,
                   args, parent, calls>>

\* Lines 69-74: the fetch resolves.  Its message is stored and returned,
\* not-found is caught and yields None, any other failure propagates.
GetMessageFetchResume(t, outcome) ==
    /\ running = 0
    /\ InGetMessage(t, "gm_fetch_wait")
    /\ got' = [got EXCEPT ![t] = outcome]
    /\ CASE outcome = "ok" ->
              /\ message' = Some(FetchedMessage(query, t))
              /\ GetMessageReturn(t, message')
         [] outcome = "notfound" ->
              /\ GetMessageReturn(t, None)
              /\ UNCHANGED message
         [] OTHER ->
              /\ GetMessageRaise(t, "RPCError", "get_messages")
              /\ UNCHANGED message
    /\ UNCHANGED <<query, entities, chat, input_chat, answered, ntasks, op,
                   args, parent, calls>>

(***************************************************************************)
(* _refetch_sender                                                         *)
(***************************************************************************)

SessionGetInputEntity(q) ==
    [request |-> "session.get_input_entity", key |-> q.user_id]

\* What the session holds for a sender it knows.
SessionInputEntity(q) ==
    [type |-> "InputPeerUser", user_id |-> q.user_id, access_hash |-> Hash.session]


\* Line 82 without its `not`.
LacksAccessHashInverted(ref) == AccessHashTruthy(ref)

\* Line 82: not getattr(self._input_sender, 'access_hash', True)
LacksAccessHash(ref) == ~AccessHashTruthy(ref)

\* _refetch_sender without the handler of line 88: the session's ValueError
\* comes out of the resolution.
RefetchSenderUncaught(t, known) ==
    /\ running = t
    /\ op[t] = "_refetch_sender"
    /\ pc[t] = "start"
    /\ sender' = DictGet(entities, sender_id)
    /\ IF sender' = None
       THEN /\ Finish(t, Return(None))
            /\ UNCHANGED <<input_sender, calls, got>>
       ELSE IF ~LacksAccessHash(get_input_peer(chat[1]))
       THEN /\ input_sender' = Some(get_input_peer(chat[1]))
            /\ Finish(t, Return(None))
            /\ UNCHANGED <<calls, got>>
       ELSE /\ calls' = calls \cup {[by |-> t, call |-> SessionGetInputEntity(query)]}
            /\ got' = [got EXCEPT ![t] = IF known THEN "known" ELSE "unknown"]
            /\ IF known
               THEN /\ input_sender' = Some(SessionInputEntity(query))
                    /\ Finish(t, Return(None))
               ELSE /\ input_sender' = Some(get_input_peer(chat[1]))
                    /\ Finish(t, Raise("ValueError", "session.get_input_entity"))
    /\ UNCHANGED <<query, entities, chat, input_chat, message, answered,
                   ntasks, op, args, parent>>

\* Lines 77-89 up to the await of get_message().  `known` is whether the
\* session knows the sender, should line 85 ask it.
RefetchSender(t, known) ==
    /\ running = t
    /\ op[t] = "_refetch_sender"
    /\ pc[t] = "start"
    /\ sender' = DictGet(entities, sender_id)
    /\ IF sender' = None
       THEN /\ Finish(t, Return(None))
            /\ UNCHANGED <<input_sender, calls, got>>
       ELSE IF ~LacksAccessHash(get_input_peer(chat[1]))
       THEN /\ input_sender' = Some(get_input_peer(chat[1]))
            /\ Finish(t, Return(None))
            /\ UNCHANGED <<calls, got>>
       ELSE /\ calls' = calls \cup {[by |-> t, call |-> SessionGetInputEntity(query)]}
            /\ got' = [got EXCEPT ![t] = IF known THEN "known" ELSE "unknown"]
            /\ IF known
               THEN /\ input_sender' = Some(SessionInputEntity(query))
                    /\ Finish(t, Return(None))
               ELSE /\ input_sender' = Some(get_input_peer(chat[1]))
                    /\ pc' = [pc EXCEPT ![t] = "gm_call"]
                    /\ UNCHANGED <<result, running>>
    /\ UNCHANGED <<query, entities, chat, input_chat, message, answered,
                   ntasks, op, args, parent>>

(***************************************************************************)
(* The system                                                              *)
(***************************************************************************)

TransportOutcomes == {"ok", "error"}
LookupOutcomes == {"ok", "notfound"}

Next ==
    \/ \E o \in Ops : \E a \in ArgsOf(o) : Invoke(o, a)
    \/ \E t \in Tasks : AnswerRun(t)
    \/ \E t \in Tasks : \E outcome \in TransportOutcomes : AnswerResume(t, outcome)
    \/ \E t \in Tasks : ResponseSchedule(t)
    \/ \E t \in Tasks : ResponseChat(t)
    \/ \E t \in Tasks : \E outcome \in LookupOutcomes : ResponseChatResume(t, outcome)
    \/ \E t \in Tasks : ResponseSend(t)
    \/ \E t \in Tasks : \E outcome \in TransportOutcomes : ResponseSendResume(t, outcome)
    \/ \E t \in Tasks : GetMessageStart(t)
    \/ \E t \in Tasks : \E outcome \in LookupOutcomes : GetMessageChatResume(t, outcome)
    \/ \E t \in Tasks : GetMessageFetch(t)
    \/ \E t \in Tasks : \E outcome \in FetchOutcomes : GetMessageFetchResume(t, outcome)
    \/ \E t \in Tasks : \E known \in BOOLEAN : RefetchSender(t, known)

Spec == Init /\ [][Next]_vars

\* The steps the event loop takes for task t: running the coroutine from
\* where it stands to its next await.  The resolutions of the awaited calls
\* belong to the collaborators and are no part of it.
TaskStep(t) ==
    \/ AnswerRun(t)
    \/ ResponseSchedule(t)
    \/ ResponseChat(t)
    \/ ResponseSend(t)
    \/ GetMessageStart(t)
    \/ GetMessageFetch(t)
    \/ \E known \in BOOLEAN : RefetchSender(t, known)

\* The event loop is fair to every task: a task that stays ready is run.
\* Nothing is assumed of the transport.
FairSpec == Spec /\ \A t \in Tasks : WF_vars(TaskStep(t))

(***************************************************************************)
(* Properties                                                              *)
(***************************************************************************)

\* The acknowledgment requests issued so far.
AckCalls == {c \in calls : c.call.request = "SetBotCallbackAnswerRequest"}

\* The calls task t has made on collaborators.
CallsBy(t) == {c \in calls : c.by = t}

\* Task t has made its first step.
Ran(t) == pc[t] \notin {"idle", "scheduled", "start"}

\* The detached tasks created by task t.
Children(t) == {u \in Tasks : parent[u] = t /\ op[u] = "answer"}

\* C1: whatever answer(), respond(), reply(), edit() and delete() calls are
\* made on the event and however their tasks interleave, at most one
\* SetBotCallbackAnswerRequest is issued, the latch is set exactly when that
\* request has been issued, and the latch never goes back to false, so it
\* changes from false to true once.
C1_OneAcknowledgment ==
    /\ [](Cardinality(AckCalls) <= 1 /\ (answered <=> AckCalls # {}))
    /\ [][answered => answered']_vars

\* A handler's answer() is in flight, another answer() has found the latch
\* set and returned, and a response action has been invoked as well.
C1_Witness ==
    \E t1, t2, t3 \in Tasks :
        /\ op[t1] = "answer" /\ parent[t1] = 0 /\ pc[t1] = "answer_wait"
        /\ op[t2] = "answer" /\ t2 # t1 /\ pc[t2] = "done"
        /\ op[t3] \in ResponseOps /\ Ran(t3)
        /\ Cardinality(AckCalls) = 1

\* C2 as stated: from the point respond(), reply(), edit() or delete() has
\* scheduled its acknowledgment task, `acknowledged` is true.
C2_AcknowledgedOnceInvoked ==
    \A t \in Tasks : (op[t] \in ResponseOps /\ Ran(t)) => answered

\* C2 amended: from the point the action has scheduled its acknowledgment
\* task, that task exists, and `acknowledged` is true as soon as the task has
\* made its first step; while the task is only scheduled the latch is set
\* only if another answer() has run.
C2_AcknowledgedOnceTaskRuns ==
    \A t \in Tasks :
        (op[t] \in ResponseOps /\ Ran(t)) =>
            /\ Children(t) # {}
            /\ \A u \in Children(t) : Ran(u) => answered
            /\ answered => \E u \in Tasks : op[u] = "answer" /\ Ran(u)

\* An action waits for its own transport call, its acknowledgment task has
\* run and set the latch.
C2_Witness ==
    \E t \in Tasks :
        /\ op[t] \in ResponseOps /\ pc[t] = "send_wait"
        /\ \E u \in Children(t) : pc[u] = "answer_wait"
        /\ answered

\* The acknowledgment state of the event.
AckState ==
    IF ~answered THEN "Unacknowledged"
    ELSE IF \E t \in Tasks : pc[t] = "answer_wait" THEN "Acknowledging"
    ELSE "Done"

\* C3: the event starts Unacknowledged and only moves forward.  It leaves
\* Unacknowledged in the step of answer() that issues the request, it leaves
\* Acknowledging when that request resolves, with a result or with a
\* failure, and once Done no step issues another acknowledgment request or
\* unsets the latch.
C3_ForwardOnly ==
    /\ AckState = "Unacknowledged"
    /\ [][ /\ <<AckState, AckState'>> \in
                { <<"Unacknowledged", "Unacknowledged">>,
                  <<"Unacknowledged", "Acknowledging">>,
                  <<"Acknowledging", "Acknowledging">>,
                  <<"Acknowledging", "Done">>,
                  <<"Done", "Done">> }
           /\ (AckState = "Unacknowledged" /\ AckState' = "Acknowledging") =>
                \E t \in Tasks :
                    /\ AnswerEnabled(t)
                    /\ pc'[t] = "answer_wait"
                    /\ AckCalls' = {[by |-> t,
                                     call |-> SetBotCallbackAnswerRequest(query, args[t])]}
           /\ (AckState = "Acknowledging" /\ AckState' = "Done") =>
                \E t \in Tasks :
                    /\ pc[t] = "answer_wait" /\ pc'[t] = "done"
                    /\ result'[t].kind \in {"return", "raise"}
           /\ AckState # "Unacknowledged" => AckCalls' = AckCalls
         ]_vars

\* The acknowledgment request has failed, the latch is still set, and an
\* answer() made by the handler has returned without a request of its own.
C3_Witness ==
    \E t1, t2 \in Tasks :
        /\ op[t1] = "answer" /\ result[t1].kind = "raise"
        /\ op[t2] = "answer" /\ parent[t2] = 0 /\ pc[t2] = "done"
        /\ CallsBy(t2) = {}
        /\ AckState = "Done"

\* C4: an answer() that runs with the latch set ends at once with None and
\* issues nothing; one that runs with the latch open issues the request.
\* So a call that has run is either the one issuer, which ends with the
\* outcome of that request (its result, or its failure raised), or has
\* ended with None.
C4_OnlyIssuerGetsResult ==
    /\ [](\A t \in Tasks :
            (op[t] = "answer" /\ Ran(t)) =>
                IF CallsBy(t) # {}
                THEN /\ AckCalls = CallsBy(t)
                     /\ pc[t] = "done" =>
                          \/ got[t] = "ok" /\ result[t].kind = "return"
                                 /\ result[t].val # None
                          \/ got[t] = "error" /\ result[t].kind = "raise"
                ELSE pc[t] = "done" /\ result[t] = Return(None))
    /\ [][\A t \in Tasks :
            (AnswerEnabled(t) /\ pc'[t] # pc[t]) =>
                IF answered
                THEN pc'[t] = "done" /\ result'[t] = Return(None) /\ calls' = calls
                ELSE /\ pc'[t] = "answer_wait"
                     /\ calls' = calls \cup
                           {[by |-> t,
                             call |-> SetBotCallbackAnswerRequest(query, args[t])]}
         ]_vars

\* Two answer() calls of the handler have ended: one with the transport's
\* result, the other, which carried arguments of its own, with None.
C4_Witness ==
    \E t1, t2 \in Tasks :
        /\ op[t1] = "answer" /\ parent[t1] = 0 /\ pc[t1] = "done"
        /\ result[t1].kind = "return" /\ result[t1].val # None
        /\ op[t2] = "answer" /\ parent[t2] = 0 /\ pc[t2] = "done"
        /\ args[t2] # DefaultAnswer
        /\ result[t2] = Return(None)

\* What an action ends with, given what its own awaits resolved to.
OwnOutcome(o, outcome) ==
    CASE outcome = "notfound" -> Raise("ValueError", "get_input_chat")
      [] outcome = "ok" -> Return(Some([type |-> "result", from |-> o]))
      [] outcome = "error" -> Raise("RPCError", o)

\* C5: what respond(), reply(), edit() or delete() returns or raises is
\* fixed by the outcome of its own chat lookup and its own transport call,
\* whatever became of the acknowledgment task it created.
C5_AckFailureNotPropagated ==
    \A t \in Tasks :
        (op[t] \in ResponseOps /\ pc[t] = "done") =>
            result[t] = OwnOutcome(op[t], got[t])

\* An action has returned its result although its acknowledgment failed.
C5_Witness ==
    \E t \in Tasks :
        /\ op[t] \in ResponseOps /\ pc[t] = "done" /\ result[t].kind = "return"
        /\ \E u \in Children(t) : result[u].kind = "raise"

\* C6: an action that is about to resolve the chat, is resolving it, or has
\* issued its own transport call has created its acknowledgment task before;
\* no call of the action on a collaborator precedes the create_task.
C6_ScheduledBeforeTransport ==
    \A t \in Tasks :
        (op[t] \in ResponseOps /\ (Ran(t) \/ CallsBy(t) # {})) => Children(t) # {}

\* The action's transport call is out while its acknowledgment task is
\* still only scheduled.
C6_Witness ==
    \E t \in Tasks :
        /\ op[t] \in ResponseOps /\ pc[t] = "send_wait"
        /\ \E c \in CallsBy(t) : c.call.request \in
               {"send_message", "edit_message", "delete_messages"}
        /\ \E u \in Children(t) : pc[u] = "scheduled"

\* C7 as stated: once a get_message() call has returned a message, a
\* get_message() call made afterwards returns at once, with that same
\* message, and calls no collaborator.
C7_LaterCallsReturnFirstMessage ==
    [][\A t1, t2 \in Tasks :
          ( /\ op[t1] = "get_message" /\ pc[t1] = "done"
            /\ result[t1].kind = "return" /\ result[t1].val # None
            /\ op[t2] = "get_message" /\ pc[t2] = "start" /\ pc'[t2] # "start" )
          => /\ pc'[t2] = "done"
             /\ result'[t2] = result[t1]
             /\ calls' = calls
      ]_vars

\* C8: the step in which get_message() learns that the chat or the message
\* was not found ends the call with None, raises nothing, and changes no
\* field of the event: `cachedMessage` is not written.
C8_NotFoundReturnsEmpty ==
    [][\A t \in Tasks :
          ( /\ pc[t] \in {"gm_chat_wait", "gm_fetch_wait"}
            /\ pc'[t] # pc[t]
            /\ got'[t] = "notfound" )
          => /\ pc'[t] = "done"
             /\ result'[t] = Return(None)
             /\ message' = message
             /\ UNCHANGED <<query, entities, sender, input_sender, answered>>
      ]_vars

\* On a channel event one get_message() has ended with None because the
\* chat was not found and another because the message was not found; the
\* cache is still empty.
C8_Witness ==
    \E t1, t2 \in Tasks :
        /\ op[t1] = "get_message" /\ pc[t1] = "done" /\ got[t1] = "notfound"
        /\ \A c \in CallsBy(t1) : c.call.request # "get_messages"
        /\ op[t2] = "get_message" /\ pc[t2] = "done" /\ got[t2] = "notfound"
        /\ \E c \in CallsBy(t2) : c.call.request = "get_messages"
        /\ result[t1] = Return(None) /\ result[t2] = Return(None)
        /\ message = None

\* The reference carries an access hash that is set.
ValidCredential(ref) == "access_hash" \in DOMAIN ref /\ ref.access_hash # 0

\* C9: when the snapshot holds the sender and the input reference derived
\* from the chat carries a valid access hash, a sender resolution that has
\* run has ended, has called neither the session nor get_message(), and
\* both the sender and the input sender are set.
C9_ValidCredentialStopsAtStep2 ==
    \A t \in Tasks :
        ( /\ op[t] = "_refetch_sender" /\ Ran(t)
          /\ sender_id \in DOMAIN entities
          /\ ValidCredential(get_input_peer(chat[1])) )
        => /\ pc[t] = "done"
           /\ result[t] = Return(None)
           /\ CallsBy(t) = {}
           /\ sender = Some(entities[sender_id])
           /\ input_sender = Some(get_input_peer(chat[1]))

\* A resolution over a snapshot with the sender and a valid credential has
\* ended with both slots set.
C9_Witness ==
    \E t \in Tasks :
        /\ op[t] = "_refetch_sender" /\ pc[t] = "done"
        /\ sender_id \in DOMAIN entities
        /\ ValidCredential(get_input_peer(chat[1]))
        /\ sender # None /\ input_sender # None

\* Task t's get_message(), called from _refetch_sender, returns in this step.
RefetchEnds(t) ==
    /\ op[t] = "_refetch_sender"
    /\ pc[t] \in {"gm_call", "gm_chat_wait", "gm_fetch_wait"}
    /\ pc'[t] = "done"
    /\ result'[t].kind = "return"

\* What that get_message() returns: the cached message, the message just
\* fetched, or None.
RefetchMessage(t) ==
    IF pc[t] = "gm_call" THEN message
    ELSE IF got'[t] = "ok" THEN message'
    ELSE None

\* C10 as stated: the resolution that fell through to get_message() ends
\* with the message's sender and input sender, or, the message being
\* unavailable, with both slots empty.
C10_UnresolvedWhenMessageUnavailable ==
    [][\A t \in Tasks :
          RefetchEnds(t) =>
              IF RefetchMessage(t) # None
              THEN /\ sender' = RefetchMessage(t)[1].sender
                   /\ input_sender' = RefetchMessage(t)[1].input_sender
              ELSE sender' = None /\ input_sender' = None
      ]_vars

\* C10 amended: a resolution whose derived reference lacks an access hash
\* and whose session lookup fails goes on into get_message().  If that
\* yields a message, the slots become the message's sender and input sender.
\* If it yields none, the last step changes neither slot: with no other
\* resolution on the event they hold what lines 77 and 81 stored, the
\* snapshot's entity and the derived reference without a usable hash.
C10_FallsThroughToMessage ==
    [][\A t \in Tasks :
          /\ ( /\ op[t] = "_refetch_sender" /\ pc[t] = "start"
               /\ pc'[t] # "start" /\ got'[t] = "unknown" )
             => pc'[t] = "gm_call" /\ running' = t
          /\ RefetchEnds(t) =>
              IF RefetchMessage(t) # None
              THEN /\ sender' = RefetchMessage(t)[1].sender
                   /\ input_sender' = RefetchMessage(t)[1].input_sender
              ELSE /\ UNCHANGED <<sender, input_sender>>
                   /\ (\A u \in Tasks \ {t} : op[u] # "_refetch_sender") =>
                        /\ sender' = Some(entities[sender_id])
                        /\ input_sender' = Some(get_input_peer(chat[1]))
                        /\ ~ValidCredential(input_sender'[1])
      ]_vars

\* A resolution fell through to get_message(), the message was not found,
\* and the slots hold the snapshot's entity and the reference without a hash.
C10_Witness ==
    \E t \in Tasks :
        /\ op[t] = "_refetch_sender" /\ pc[t] = "done" /\ got[t] = "notfound"
        /\ \E c \in CallsBy(t) : c.call.request = "session.get_input_entity"
        /\ \E c \in CallsBy(t) : c.call.request = "get_messages"
        /\ sender = Some(entities[sender_id])
        /\ input_sender # None /\ ~ValidCredential(input_sender[1])

\* C11 as stated: whatever its lookups resolve to, sender resolution does
\* not raise.
C11_NeverRaises ==
    \A t \in Tasks : op[t] = "_refetch_sender" => result[t].kind # "raise"

\* C11 amended: a sender resolution that has ended has returned None unless
\* the message fetch failed with something other than not-found: a sender
\* missing from the snapshot, a session that does not know the sender, a
\* chat or a message that is not found all end it normally, and only the
\* fetch's transport failure, which line 71 does not catch, comes out of it.
C11_RaisesOnlyTransportFailure ==
    \A t \in Tasks :
        (op[t] = "_refetch_sender" /\ pc[t] = "done") =>
            IF got[t] = "error"
            THEN result[t] = Raise("RPCError", "get_messages")
            ELSE result[t] = Return(None)

\* A resolution whose session lookup failed and whose message was not found
\* has returned normally.
C11_Witness ==
    \E t \in Tasks :
        /\ op[t] = "_refetch_sender" /\ pc[t] = "done"
        /\ \E c \in CallsBy(t) : c.call.request = "session.get_input_entity"
        /\ got[t] = "notfound"
        /\ result[t] = Return(None)

\* C12: an action that has run has created exactly one acknowledgment task,
\* and every acknowledgment request issued by such a task carries the
\* event's query id, cache_time 0, alert false, no message and no url.
C12_DefaultAcknowledgment ==
    /\ \A t \in Tasks :
          (op[t] \in ResponseOps /\ Ran(t)) => Cardinality(Children(t)) = 1
    /\ \A c \in AckCalls :
          parent[c.by] # 0 =>
              c.call = [request |-> "SetBotCallbackAnswerRequest",
                        query_id |-> query.query_id, cache_time |-> 0,
                        alert |-> FALSE, message |-> None, url |-> None]

\* reply() was called on the fresh event and the task it created has issued
\* the acknowledgment.
C12_Witness ==
    \E t \in Tasks :
        /\ op[t] = "reply" /\ t = 1
        /\ \E u \in Children(t) : CallsBy(u) # {} /\ CallsBy(u) = AckCalls

\* The transport requests of the response actions.
ResponseRequests == {"send_message", "edit_message", "delete_messages"}

\* C13: every transport call of a response action goes to the event's
\* resolved chat.  reply() sends with reply_to set to the event's message id
\* whatever the caller passed and with the caller's other arguments as they
\* are, respond() sends the caller's arguments unchanged, edit() names the
\* event's message id, and delete() names the one-element list of it.
C13_OwnChatAndMessageOnly ==
    \A c \in calls :
        c.call.request \in ResponseRequests =>
            /\ op[c.by] \in ResponseOps
            /\ c.call.entity = get_input_peer(chat[1])
            /\ CASE op[c.by] = "reply" ->
                      /\ c.call.request = "send_message"
                      /\ DOMAIN c.call.kwargs = DOMAIN args[c.by] \cup {"reply_to"}
                      /\ c.call.kwargs.reply_to = query.msg_id
                      /\ c.call.kwargs.text = args[c.by].text
                 [] op[c.by] = "respond" ->
                      /\ c.call.request = "send_message"
                      /\ c.call.kwargs = args[c.by]
                 [] op[c.by] = "edit" ->
                      /\ c.call.request = "edit_message"
                      /\ c.call.message = query.msg_id
                 [] op[c.by] = "delete" ->
                      /\ c.call.request = "delete_messages"
                      /\ c.call.message_ids = <<query.msg_id>>

\* reply() was called with a reply_to of the caller's and has sent with the
\* event's message id.
C13_Witness ==
    \E c \in calls :
        /\ op[c.by] = "reply"
        /\ c.call.request = "send_message"
        /\ "reply_to" \in DOMAIN args[c.by]
        /\ args[c.by].reply_to # query.msg_id
        /\ c.call.kwargs.reply_to = query.msg_id

\* C14 as stated: once `cachedMessage` holds a message, no step writes it
\* again.
C14_MessageWrittenOnce ==
    [][message # None => message' = message]_vars

\* C15 as stated: once the sender slot, or the input-sender slot, is not
\* empty, no step changes it.
C15_SenderWrittenOnce ==
    [][ /\ sender # None => sender' = sender
        /\ input_sender # None => input_sender' = input_sender ]_vars

\* C15 amended: the two slots are written by sender resolution only, and
\* resolution writes them more than once.  Its first step assigns the sender
\* from the snapshot and, the sender being there, the input sender from the
\* chat or from the session, whatever the slots held; the step that ends a
\* resolution that fell through to get_message() replaces both by the
\* message's, or leaves both alone when there is no message.
C15_SenderWrittenByResolutionOnly ==
    [][ (sender' # sender \/ input_sender' # input_sender) =>
          \E t \in Tasks :
              /\ op[t] = "_refetch_sender"
              /\ pc'[t] # pc[t]
              /\ IF pc[t] = "start"
                 THEN /\ sender' = DictGet(entities, sender_id)
                      /\ input_sender' \in
                            { input_sender, Some(get_input_peer(chat[1])),
                              Some(SessionInputEntity(query)) }
                 ELSE /\ RefetchEnds(t)
                      /\ RefetchMessage(t) # None
                      /\ sender' = RefetchMessage(t)[1].sender
                      /\ input_sender' = RefetchMessage(t)[1].input_sender
      ]_vars

\* A resolution has replaced the snapshot's entity, which it had stored
\* first, by the sender of the message it fetched.
C15_Witness ==
    \E t \in Tasks :
        /\ op[t] = "_refetch_sender" /\ pc[t] = "done" /\ got[t] = "ok"
        /\ sender_id \in DOMAIN entities
        /\ message # None
        /\ sender = message[1].sender
        /\ sender # Some(entities[sender_id])

\* C16: no step changes the query (its id, message id, payload, peer and
\* sender id) or the entity snapshot; a step of answer() changes no cache
\* slot, a step of get_message() changes neither the sender slots nor the
\* latch, and a step of sender resolution does not change the latch.
C16_Frame ==
    [][ /\ query' = query
        /\ entities' = entities
        /\ \A t \in Tasks :
              pc'[t] # pc[t] =>
                  CASE op'[t] = "answer" ->
                          UNCHANGED <<sender, input_sender, message>>
                    [] op'[t] = "get_message" ->
                          UNCHANGED <<sender, input_sender, answered>>
                    [] op'[t] = "_refetch_sender" ->
                          answered' = answered
                    [] OTHER -> TRUE
      ]_vars

\* Sender resolution has filled the three cache slots, answer() has set the
\* latch, and the query and the snapshot are those of construction.
C16_Witness ==
    /\ \E t \in Tasks : op[t] = "_refetch_sender" /\ pc[t] = "done" /\ got[t] = "ok"
    /\ \E t \in Tasks : op[t] = "answer" /\ Ran(t)
    /\ sender # None /\ input_sender # None /\ message # None /\ answered
    /\ query \in Updates
    /\ sender_id \in DOMAIN entities

\* The acknowledgment task u created by task t has resolved its request
\* while t has not yet issued its own transport call.
AckResolvedBeforeIssue(t, u) ==
    /\ pc[u] = "done" /\ got[u] \in TransportOutcomes
    /\ pc[t] \in {"chat_wait", "send"}

\* The acknowledgment request of u and the transport call of t are both in
\* flight.
AckInFlightDuringCall(t, u) ==
    /\ pc[u] = "answer_wait"
    /\ pc[t] = "send_wait"

\* Task t has returned its result while the acknowledgment request of u is
\* still in flight.
AckInFlightAfterReturn(t, u) ==
    /\ pc[u] = "answer_wait"
    /\ pc[t] = "done" /\ result[t].kind = "return"

\* C17: a response action never waits for the acknowledgment.  Whenever the
\* action holds the loop its next step is enabled, and whenever the loop is
\* idle the resolution of its lookup or of its transport call is enabled,
\* whatever the acknowledgment task it created is doing; and an
\* acknowledgment request in flight can resolve whatever the action is
\* doing, before the action's call is issued, while it is in flight and
\* after the action has returned.
C17_NeverWaitsForAcknowledgment ==
    \A t \in Tasks :
        op[t] \in ResponseOps =>
            /\ (running = t /\ pc[t] = "start") => ENABLED ResponseSchedule(t)
            /\ (running = t /\ pc[t] = "chat") => ENABLED ResponseChat(t)
            /\ (running = t /\ pc[t] = "send") => ENABLED ResponseSend(t)
            /\ (running = 0 /\ pc[t] = "chat_wait") =>
                  \A outcome \in LookupOutcomes :
                      ENABLED ResponseChatResume(t, outcome)
            /\ (running = 0 /\ pc[t] = "send_wait") =>
                  \A outcome \in TransportOutcomes :
                      ENABLED ResponseSendResume(t, outcome)
            /\ \A u \in Children(t) :
                  (running = 0 /\ pc[u] = "answer_wait") =>
                      \A outcome \in TransportOutcomes :
                          ENABLED AnswerResume(u, outcome)

\* The acknowledgment created by a response action has resolved before the
\* action issued its own transport call.
C17_Witness ==
    \E t \in Tasks : \E u \in Children(t) :
        /\ op[t] \in ResponseOps
        /\ AckResolvedBeforeIssue(t, u)
        /\ \A c \in CallsBy(t) : c.call.request \notin ResponseRequests

\* The second completion order: both requests are in flight and the loop is
\* idle, so the acknowledgment can resolve during the action's call.
C17_DuringReachable ==
    \E t \in Tasks : \E u \in Children(t) :
        op[t] \in ResponseOps /\ running = 0 /\ AckInFlightDuringCall(t, u)

\* The third completion order: the action has returned and the
\* acknowledgment request is still in flight.
C17_AfterReachable ==
    \E t \in Tasks : \E u \in Children(t) :
        op[t] \in ResponseOps /\ running = 0 /\ AckInFlightAfterReturn(t, u)

\* respond(), reply(), edit() or delete() has been called on the event.
ResponseInvoked == \E t \in Tasks : op[t] \in ResponseOps /\ pc[t] # "idle"

\* No acknowledgment request is awaiting its resolution.
NoAckInFlight == \A t \in Tasks : pc[t] # "answer_wait"

\* C18: under a loop that is fair to its tasks, once a response action has
\* been called the acknowledgment request is eventually issued, so the event
\* leaves Unacknowledged; and if the transport resolves the request, so that
\* from some point on none is in flight, the event reaches Done.
C18_EventuallyAcknowledged ==
    /\ ResponseInvoked ~> (AckState # "Unacknowledged")
    /\ (<>[]NoAckInFlight) => (ResponseInvoked ~> (AckState = "Done"))

\* The task created by a response action has issued the acknowledgment and
\* the transport has resolved it.
C18_Witness ==
    \E t \in Tasks : \E u \in Children(t) :
        /\ op[t] \in ResponseOps
        /\ \E c \in AckCalls : c.by = u
        /\ got[u] \in TransportOutcomes
        /\ AckState = "Done"

\* The response action of task t has failed, in its chat lookup or in its
\* own transport call.
ActionFailed(t) ==
    /\ op[t] \in ResponseOps
    /\ pc[t] = "done"
    /\ result[t].kind = "raise"

\* C19 as stated: an answer() the handler calls once a response action has
\* failed finds the latch set.
C19_FailureHandlerFindsAcknowledged ==
    \A v \in Tasks :
        ( /\ op[v] = "answer" /\ parent[v] = 0
          /\ pc[v] = "start" /\ running = v
          /\ \E t \in Tasks : ActionFailed(t) ) => answered

\* C19: the acknowledgment a response action schedules does not depend on
\* the action succeeding.  Once the action has failed, the task it created
\* is still queued or has run; under a fair loop the latch is eventually
\* set; and the created task sends the default acknowledgment unless another
\* answer() had set the latch before it ran.  An answer() the handler calls
\* after the failure is dropped only if the latch is set by then; otherwise
\* its own parameters are the ones sent.
C19_AckSurvivesFailure ==
    /\ [](\A t \in Tasks :
            ActionFailed(t) =>
                /\ Children(t) # {}
                /\ \A u \in Children(t) :
                      /\ pc[u] \in {"scheduled", "answer_wait", "done"}
                      /\ result[u].kind = "raise" => got[u] = "error"
                      /\ Ran(u) =>
                            \/ \E c \in AckCalls :
                                  /\ c.by = u
                                  /\ c.call = SetBotCallbackAnswerRequest(query, DefaultAnswer)
                            \/ \E c \in AckCalls : c.by # u)
    /\ (\E t \in Tasks : ActionFailed(t)) ~> answered
    /\ [](\A v \in Tasks :
            ( /\ op[v] = "answer" /\ parent[v] = 0 /\ Ran(v)
              /\ \E t \in Tasks : ActionFailed(t) ) =>
                (CallsBy(v) = {} <=> \E c \in AckCalls : c.by # v))

\* A response action has failed, the task it created has sent the default
\* acknowledgment all the same, and the handler's answer() with an error
\* message has been dropped.
C19_Witness ==
    \E t, v \in Tasks : \E u \in Children(t) :
        /\ ActionFailed(t)
        /\ \E c \in AckCalls :
              c.by = u /\ c.call = SetBotCallbackAnswerRequest(query, DefaultAnswer)
        /\ op[v] = "answer" /\ parent[v] = 0 /\ v > u
        /\ args[v] # DefaultAnswer
        /\ pc[v] = "done" /\ result[v] = Return(None) /\ CallsBy(v) = {}

\* The executions of answer() that have made their first step.
AnswerRuns == {t \in Tasks : op[t] = "answer" /\ Ran(t)}

\* C20: once any answer() has run, exactly one acknowledgment request has
\* been transmitted, and it carries the parameters of the execution that
\* set the latch.  Every other execution, an explicit call after the
\* detached default acknowledgment or the detached task after an explicit
\* call, has sent nothing and has returned no result and no error.
C20_OneParameterSet ==
    /\ AnswerRuns # {} => Cardinality(AckCalls) = 1
    /\ AnswerRuns = {} => AckCalls = {}
    /\ \A c \in AckCalls :
          /\ c.by \in AnswerRuns
          /\ c.call = SetBotCallbackAnswerRequest(query, args[c.by])
          /\ \A v \in AnswerRuns \ {c.by} :
                /\ CallsBy(v) = {}
                /\ pc[v] = "done"
                /\ result[v] = Return(None)

\* An explicit answer() ran first and sent its parameters; the detached
\* task of a response action ran afterwards and issued nothing.
C20_Witness ==
    \E t, v \in Tasks : \E u \in Children(t) :
        /\ op[t] \in ResponseOps
        /\ op[v] = "answer" /\ parent[v] = 0 /\ args[v] # DefaultAnswer
        /\ \E c \in AckCalls :
              c.by = v /\ c.call = SetBotCallbackAnswerRequest(query, args[v])
        /\ pc[u] = "done" /\ result[u] = Return(None) /\ CallsBy(u) = {}

\* The other order: the detached default acknowledgment set the latch and a
\* later explicit answer() was dropped.
C20_DetachedFirstReachable ==
    \E t, v \in Tasks : \E u \in Children(t) :
        /\ op[t] \in ResponseOps
        /\ op[v] = "answer" /\ parent[v] = 0 /\ args[v] # DefaultAnswer
        /\ \E c \in AckCalls :
              c.by = u /\ c.call = SetBotCallbackAnswerRequest(query, DefaultAnswer)
        /\ pc[v] = "done" /\ result[v] = Return(None) /\ CallsBy(v) = {}

====
